---------------------------- MODULE Spec2Model ----------------------------
(***************************************************************************)
(* Model of src/wasm/openssl_rand_wrapper.c: seven exported functions that *)
(* take integer offsets into the WebAssembly linear memory, cast them to   *)
(* pointers and call OpenSSL.  The linear memory is the variable mem.  The *)
(* OpenSSL primitives are the environment: every primitive call may report *)
(* failure, and a primitive that is handed a view outside the linear       *)
(* memory either reports failure before touching it or traps.              *)
(***************************************************************************)
EXTENDS Integers, Sequences, FiniteSets, TLC

\* ------------------------------------------------------------------ bounds
MaxLen == 2
MaxCalls == 2

\* ------------------------------------------------------- program constants
KeyLen == 32
TagLen_short == 16 - 1
TagLen == 16
Sha256Len == 32
Sha512Len == 64
ByteMod == 256
AeadFailure_zero == 1 - 1
AeadFailure == -1

\* ------------------------------------------------------------ linear memory
\* Layout of the regions the host allocates.  Offset 0 is the NULL address; it
\* is inside the linear memory like every other offset.
ZeroOff == 0
KeyOff == ZeroOff + MaxLen
IvOff == KeyOff + KeyLen
AadOff == IvOff + MaxLen
PtOff == AadOff + MaxLen
CtOff == PtOff + MaxLen
TagOff == CtOff + MaxLen
OutOff == TagOff + 16
MemSize == OutOff + 64

Addr == 0 .. (MemSize - 1)
PastEnd == MemSize - 1

InitMem == [i \in Addr |-> (i * 7 + 3) % ByteMod]

\* A view (off, n) lies inside the linear memory.
InRange(off, n) == off >= 0 /\ n >= 0 /\ off + n <= MemSize

\* A primitive given the view (off, n) can touch all of its bytes.
Accessible(v) == v[2] = 0 \/ InRange(v[1], v[2])

Bytes(m, off, n) == [i \in 1 .. n |-> m[off + i - 1]]

ViewBytes(m, off, n) == IF n > 0 /\ InRange(off, n) THEN Bytes(m, off, n) ELSE << >>

WriteBytes(m, off, s) ==
  [i \in Addr |-> IF off <= i /\ i < off + Len(s) THEN s[i - off + 1] ELSE m[i]]

\* Sum of s[lo .. hi] modulo 256, by halves.
RECURSIVE SumRange(_, _, _)
SumRange(s, lo, hi) ==
  IF lo > hi THEN 0
  ELSE IF lo = hi THEN s[lo] % ByteMod
  ELSE LET mid == (lo + hi) \div 2
       IN  (SumRange(s, lo, mid) + SumRange(s, mid + 1, hi)) % ByteMod

SumSeq(s) == SumRange(s, 1, Len(s))

FlipBit(b) == IF b % 2 = 0 THEN b + 1 ELSE b - 1

\* (size_t) n on wasm32, as two 16-bit halves.
SizeT(n) ==
  IF n >= 0
  THEN [hi |-> n \div 65536, lo |-> n % 65536]
  ELSE LET m == (n + 2147483647) + 1
       IN  [hi |-> 32768 + (m \div 65536), lo |-> m % 65536]

\* strlen((const char*) off): -1 when no NUL byte precedes the end of memory.
StrLen(m, off) ==
  LET zs == {k \in 0 .. (MemSize - 1) : off >= 0 /\ off + k < MemSize /\ m[off + k] = 0}
  IN  IF zs = {} THEN -1 ELSE CHOOSE k \in zs : \A j \in zs : k <= j

\* ----------------------------------------------- the trusted primitives
\* AES-256-GCM as a stream cipher with a collision-free tag: the tag bytes lay
\* out what GHASH authenticates (IV, AAD, ciphertext), masked by the key.
KeyFp(K) == SumSeq(K)

KeyStream(K, V, i) == (KeyFp(K) * 5 + SumSeq(V) * 3 + Len(V) * 11 + i * 17 + 1) % ByteMod

GcmEncryptBytes(K, V, P) == [i \in 1 .. Len(P) |-> (P[i] + KeyStream(K, V, i)) % ByteMod]

GcmDecryptBytes(K, V, C) ==
  [i \in 1 .. Len(C) |-> (C[i] + ByteMod - KeyStream(K, V, i)) % ByteMod]

GcmTag(K, V, A, C, n) ==
  LET L == <<Len(V)>> \o V \o <<Len(A)>> \o A \o <<Len(C)>> \o C
  IN  [j \in 1 .. n |-> ((IF j <= Len(L) THEN L[j] ELSE 0) + KeyFp(K) + j) % ByteMod]

\* SHA-2 and PBKDF2 stand-ins: deterministic in their inputs, fixed output size.
ShaBytes(data, n) == [j \in 1 .. n |-> (SumSeq(data) * 3 + Len(data) * 5 + j * 7 + n) % ByteMod]

Pbkdf2Bytes(pass, salt, iter, hashLen, n) ==
  [j \in 1 .. n |->
     (SumSeq(pass) * 3 + Len(pass) + SumSeq(salt) * 5 + Len(salt) * 2 + iter * 13 + hashLen + j * 7)
       % ByteMod]

RandPatterns == {0, 1}
RandFill(seed, n) == [j \in 1 .. n |-> (seed * 101 + j * 29) % ByteMod]


HashSha256 == 256
HashSha512 == 512

\* ------------------------------------------------------------------- state
VARIABLES
  mem,      \* the linear memory shared by host and module
  pc,       \* "idle", a position inside an AEAD call, "done" or "trapped"
  cur,      \* the call in progress: [op, a]
  ret,      \* the value returned to the host (meaningful when pc = "done")
  ctx,      \* the EVP_CIPHER_CTX of the call: [state, frees, uaf]
  gcm,      \* what the cipher context has absorbed so far
  len,      \* local int len
  outLen,   \* local int ciphertext_len / plaintext_len
  trace,    \* history: the primitive calls made by the call in progress
  mem0,     \* history: the memory at call entry
  failed,   \* history: the primitive that reported failure, or "none"
  envFail,  \* history: a primitive failed although its inputs were acceptable
  calls,    \* number of calls the host has made
  flipped,  \* the host has flipped a bit since the last successful encryption
  lastEnc   \* history: inputs and outputs of the last successful encryption

vars == <<mem, pc, cur, ret, ctx, gcm, len, outLen, trace, mem0, failed, envFail,
          calls, flipped, lastEnc>>

NoCall == [op |-> "none", a |-> [none |-> 0]]
NoCtx == [state |-> "none", frees |-> 0, uaf |-> FALSE]
GcmIdle == [ivlen |-> 0, key |-> << >>, iv |-> << >>, aad |-> << >>, data |-> << >>, tag |-> << >>]
NoEnc == [valid |-> FALSE, K |-> << >>, V |-> << >>, Anom |-> << >>, Afed |-> << >>,
          P |-> << >>, C |-> << >>, T |-> << >>]

Entry(prim, reads, writes, lens, arg) ==
  [prim |-> prim, reads |-> reads, writes |-> writes, lens |-> lens, arg |-> arg]

EntryAccessible(e) == \A v \in e.reads \cup e.writes : Accessible(v)

\* What a primitive call can do: succeed (when its inputs allow it), report
\* failure, or, when handed bytes outside the linear memory, trap.
Outcomes(e, canOk) ==
  IF EntryAccessible(e)
  THEN (IF canOk THEN {"ok", "fail"} ELSE {"fail"})
  ELSE {"fail", "trap"}

\* EVP_CIPHER_CTX_free(ctx)
FreeCtx(c) == [c EXCEPT !.state = "freed", !.frees = @ + 1, !.uaf = @ \/ c.state = "freed"]

\* Any EVP call that takes ctx.
UseCtx(c) == [c EXCEPT !.uaf = @ \/ c.state # "live"]

FreeEntry == Entry("EVP_CIPHER_CTX_free", {}, {}, {}, 0)

\* { EVP_CIPHER_CTX_free(ctx); return -1; }
FailExit_leak(c) == c
FailExit(c) == FreeCtx(c)

Init ==
  /\ mem = InitMem
  /\ pc = "idle"
  /\ cur = NoCall
  /\ ret = 0
  /\ ctx = NoCtx
  /\ gcm = GcmIdle
  /\ len = 0
  /\ outLen = 0
  /\ trace = << >>
  /\ mem0 = InitMem
  /\ failed = "none"
  /\ envFail = FALSE
  /\ calls = 0
  /\ flipped = FALSE
  /\ lastEnc = NoEnc

\* The host starts a call.
Enter(op, a) ==
  /\ pc = "idle"
  /\ calls < MaxCalls
  /\ calls' = calls + 1
  /\ cur' = [op |-> op, a |-> a]
  /\ mem0' = mem

\* ------------------------------------------------------------ input sets
RandInputs ==
  {<<OutOff, n>> : n \in -1 .. MaxLen} \cup {<<PastEnd, MaxLen>>, <<-1, MaxLen>>}

Pbkdf2Canon ==
  [pass_ptr |-> PtOff, pass_len |-> MaxLen, salt_ptr |-> AadOff, salt_len |-> MaxLen,
   iterations |-> 1, out_ptr |-> OutOff, out_len |-> MaxLen]

Pbkdf2Inputs ==
  {Pbkdf2Canon}
    \cup {[Pbkdf2Canon EXCEPT !.pass_len = n] : n \in {-1, 0}}
    \cup {[Pbkdf2Canon EXCEPT !.salt_len = n] : n \in {-1, 0}}
    \cup {[Pbkdf2Canon EXCEPT !.iterations = n] : n \in {-1, 0, 2}}
    \cup {[Pbkdf2Canon EXCEPT !.out_len = n] : n \in {-1, 0}}
    \cup {[Pbkdf2Canon EXCEPT !.out_ptr = PastEnd], [Pbkdf2Canon EXCEPT !.pass_ptr = -1]}

ShaCanon == [data_ptr |-> PtOff, data_len |-> MaxLen, out_ptr |-> OutOff]

ShaInputs ==
  {ShaCanon}
    \cup {[ShaCanon EXCEPT !.data_len = n] : n \in {-1, 0}}
    \cup {[ShaCanon EXCEPT !.data_ptr = PastEnd], [ShaCanon EXCEPT !.out_ptr = PastEnd],
          [ShaCanon EXCEPT !.out_ptr = -1]}

EncCanon ==
  [key_ptr |-> KeyOff, iv_ptr |-> IvOff, iv_len |-> MaxLen, aad_ptr |-> AadOff,
   aad_len |-> MaxLen, plaintext_ptr |-> PtOff, plaintext_len |-> MaxLen,
   ciphertext_ptr |-> CtOff, tag_ptr |-> TagOff]

EncInputs ==
  {EncCanon}
    \cup {[EncCanon EXCEPT !.iv_len = n] : n \in {-1, 0}}
    \cup {[EncCanon EXCEPT !.aad_len = n] : n \in {-1, 0}}
    \cup {[EncCanon EXCEPT !.plaintext_len = n] : n \in {-1, 0}}
    \cup {[EncCanon EXCEPT !.aad_ptr = 0], [EncCanon EXCEPT !.key_ptr = PastEnd],
          [EncCanon EXCEPT !.ciphertext_ptr = PastEnd], [EncCanon EXCEPT !.tag_ptr = PastEnd]}

DecCanon ==
  [key_ptr |-> KeyOff, iv_ptr |-> IvOff, iv_len |-> MaxLen, aad_ptr |-> AadOff,
   aad_len |-> MaxLen, ciphertext_ptr |-> CtOff, ciphertext_len |-> MaxLen,
   tag_ptr |-> TagOff, plaintext_ptr |-> OutOff]

DecInputs ==
  {DecCanon}
    \cup {[DecCanon EXCEPT !.iv_len = n] : n \in {-1, 0}}
    \cup {[DecCanon EXCEPT !.aad_len = n] : n \in {-1, 0}}
    \cup {[DecCanon EXCEPT !.ciphertext_len = n] : n \in {-1, 0}}
    \cup {[DecCanon EXCEPT !.aad_ptr = 0], [DecCanon EXCEPT !.key_ptr = PastEnd],
          [DecCanon EXCEPT !.plaintext_ptr = PastEnd], [DecCanon EXCEPT !.tag_ptr = PastEnd]}

TamperAddrs == {ZeroOff, IvOff, AadOff, CtOff, TagOff, TagOff + 15}

\* ------------------------------------------------- the one-shot operations
NoAead == /\ ctx' = NoCtx /\ gcm' = GcmIdle /\ len' = 0 /\ outLen' = 0

\* The call made one primitive call e with outcome o, stored m2 and returns r.
OneShot(e, o, m2, r) ==
  /\ trace' = <<e>>
  /\ mem' = (IF o = "ok" THEN m2 ELSE mem)
  /\ pc' = (IF o = "trap" THEN "trapped" ELSE "done")
  /\ ret' = r
  /\ failed' = (IF o = "ok" THEN "none" ELSE e.prim)
  /\ envFail' = (o # "ok")
  /\ NoAead
  /\ UNCHANGED <<flipped, lastEnc>>

\* return RAND_bytes(buf, len): 1 on success, 0 on failure, -1 when the RAND
\* method does not support the call.
RandStatus(o) == CASE o = "ok" -> 1 [] o = "unsupported" -> -1 [] OTHER -> 0

openssl_rand_bytes(ptr, n) ==
  /\ Enter("openssl_rand_bytes", [ptr |-> ptr, len |-> n])
  /\ LET e == Entry("RAND_bytes", {}, {<<ptr, n>>}, {n}, 0)
     IN  \E o \in Outcomes(e, TRUE) \cup {"unsupported"} : \E seed \in RandPatterns :
           OneShot(e, o, WriteBytes(mem, ptr, RandFill(seed, n)), RandStatus(o))

\* if (out_len <= 0 || iterations <= 0) return 0;
Pbkdf2Valid_lax(a) == ~(a.out_len < 0 \/ a.iterations <= 0)
Pbkdf2Valid(a) == ~(a.out_len <= 0 \/ a.iterations <= 0)

\* PKCS5_PBKDF2_HMAC takes passlen = -1 to mean strlen(pass).
PassLen(m, a) == IF a.pass_len = -1 THEN StrLen(m, a.pass_ptr) ELSE a.pass_len

Pbkdf2Status(o) == IF o = "ok" THEN 1 ELSE 0

Pbkdf2(op, hash, hashLen, a) ==
  /\ Enter(op, a)
  /\ IF ~Pbkdf2Valid(a)
     THEN /\ trace' = << >> /\ mem' = mem /\ pc' = "done" /\ ret' = 0
          /\ failed' = "none" /\ envFail' = FALSE /\ NoAead
          /\ UNCHANGED <<flipped, lastEnc>>
     ELSE LET pn == PassLen(mem, a)
              e == Entry("PKCS5_PBKDF2_HMAC",
                         {<<a.pass_ptr, pn>>, <<a.salt_ptr, a.salt_len>>},
                         {<<a.out_ptr, a.out_len>>},
                         {a.pass_len, a.salt_len, a.out_len}, hash)
          IN  \E o \in Outcomes(e, TRUE) :
                OneShot(e, o,
                        WriteBytes(mem, a.out_ptr,
                                   Pbkdf2Bytes(ViewBytes(mem, a.pass_ptr, pn),
                                               ViewBytes(mem, a.salt_ptr, a.salt_len),
                                               a.iterations, hashLen, a.out_len)),
                        Pbkdf2Status(o))

pbkdf2_hmac_sha256(a) == Pbkdf2("pbkdf2_hmac_sha256", HashSha256, Sha256Len, a)

pbkdf2_hmac_sha512(a) == Pbkdf2("pbkdf2_hmac_sha512", HashSha512, Sha512Len, a)

\* return ret != NULL ? 1 : 0;
DigestStatus(o) == IF o = "ok" THEN 1 ELSE 0

\* SHA256(data, (size_t)data_len, out) / SHA512(...)
Digest(op, prim, hashLen, a) ==
  /\ Enter(op, a)
  /\ LET sz == SizeT(a.data_len)
         dataView == IF sz.hi = 0 THEN <<a.data_ptr, sz.lo>> ELSE <<a.data_ptr, -1>>
         e == Entry(prim, {dataView}, {<<a.out_ptr, hashLen>>}, {a.data_len}, sz.hi)
     IN  \E o \in Outcomes(e, TRUE) :
           OneShot(e, o,
                   WriteBytes(mem, a.out_ptr,
                              ShaBytes(ViewBytes(mem, a.data_ptr, a.data_len), hashLen)),
                   DigestStatus(o))

sha256_digest(a) == Digest("sha256_digest", "SHA256", Sha256Len, a)

sha512_digest(a) == Digest("sha512_digest", "SHA512", Sha512Len, a)

\* ------------------------------------------------------ the AEAD operations
\* if (aad && aad_len > 0)
AadPresent_lenOnly(a) == a.aad_len > 0
AadPresent(a) == a.aad_ptr # 0 /\ a.aad_len > 0

\* The order of the statements of aes_256_gcm_encrypt.
EncNext(p, a) ==
  CASE p = "init" -> "ivlen"
    [] p = "ivlen" -> "keyiv"
    [] p = "keyiv" -> (IF AadPresent(a) THEN "aad" ELSE "update")
    [] p = "aad" -> "update"
    [] p = "update" -> "final"
    [] p = "final" -> "gettag"
    [] p = "gettag" -> "free"

\* The order of the statements of aes_256_gcm_decrypt.
DecNext_tagLate(p, a) ==
  CASE p = "init" -> "ivlen"
    [] p = "ivlen" -> "keyiv"
    [] p = "keyiv" -> (IF AadPresent(a) THEN "aad" ELSE "update")
    [] p = "aad" -> "update"
    [] p = "update" -> "final"
    [] p = "final" -> "settag"
    [] p = "settag" -> "free"
DecNext(p, a) ==
  CASE p = "init" -> "ivlen"
    [] p = "ivlen" -> "keyiv"
    [] p = "keyiv" -> (IF AadPresent(a) THEN "aad" ELSE "update")
    [] p = "aad" -> "update"
    [] p = "update" -> "settag"
    [] p = "settag" -> "final"
    [] p = "final" -> "free"

\* EVP_CIPHER_CTX *ctx = EVP_CIPHER_CTX_new(); if (!ctx) return -1;
AeadEnter(op, a) ==
  /\ Enter(op, a)
  /\ \E o \in {"ok", "fail"} :
       /\ trace' = <<Entry("new", {}, {}, {}, 0)>>
       /\ ctx' = (IF o = "ok" THEN [NoCtx EXCEPT !.state = "live"] ELSE NoCtx)
       /\ pc' = (IF o = "ok" THEN "init" ELSE "done")
       /\ ret' = (IF o = "ok" THEN 0 ELSE AeadFailure)
       /\ failed' = (IF o = "ok" THEN "none" ELSE "new")
       /\ envFail' = (o # "ok")
  /\ gcm' = GcmIdle /\ len' = 0 /\ outLen' = 0
  /\ UNCHANGED <<mem, flipped, lastEnc>>

\* One guarded statement of an AEAD function:
\*   if (PRIMITIVE(ctx, ...) != 1) { EVP_CIPHER_CTX_free(ctx); return -1; }
\* On success the primitive leaves memory m2, cipher state g2 and *outl = len2,
\* and the function continues at next with ciphertext_len / plaintext_len = out2.
PrimStep(e, canOk, m2, g2, len2, out2, next) ==
  /\ \E o \in Outcomes(e, canOk) :
       \/ /\ o = "ok"
          /\ mem' = m2 /\ gcm' = g2 /\ len' = len2 /\ outLen' = out2
          /\ pc' = next
          /\ ctx' = UseCtx(ctx)
          /\ trace' = Append(trace, e)
          /\ UNCHANGED <<ret, failed, envFail>>
       \/ /\ o = "fail"
          /\ pc' = "done"
          /\ ret' = AeadFailure
          /\ ctx' = FailExit(UseCtx(ctx))
          /\ trace' = trace \o <<e, FreeEntry>>
          /\ failed' = e.prim
          /\ envFail' = (envFail \/ canOk \/ ~EntryAccessible(e))
          /\ UNCHANGED <<mem, gcm, len, outLen>>
       \/ /\ o = "trap"
          /\ pc' = "trapped"
          /\ ctx' = UseCtx(ctx)
          /\ trace' = Append(trace, e)
          /\ failed' = e.prim
          /\ envFail' = TRUE
          /\ UNCHANGED <<mem, gcm, len, outLen, ret>>
  /\ UNCHANGED <<cur, mem0, calls, flipped, lastEnc>>

At(op, p) == cur.op = op /\ pc = p

aes_256_gcm_encrypt(a) == AeadEnter("aes_256_gcm_encrypt", a)

\* EVP_EncryptInit_ex(ctx, EVP_aes_256_gcm(), NULL, NULL, NULL)
EncInit ==
  /\ At("aes_256_gcm_encrypt", "init")
  /\ PrimStep(Entry("init", {}, {}, {}, 0), TRUE, mem, gcm, len, outLen, EncNext(pc, cur.a))

\* EVP_CIPHER_CTX_ctrl(ctx, EVP_CTRL_GCM_SET_IVLEN, iv_len, NULL)
EncSetIvLen ==
  /\ At("aes_256_gcm_encrypt", "ivlen")
  /\ PrimStep(Entry("ivlen", {}, {}, {cur.a.iv_len}, 0), cur.a.iv_len > 0, mem,
              [gcm EXCEPT !.ivlen = cur.a.iv_len], len, outLen, EncNext(pc, cur.a))

\* EVP_EncryptInit_ex(ctx, NULL, NULL, key, iv)
EncKeyIv ==
  /\ At("aes_256_gcm_encrypt", "keyiv")
  /\ PrimStep(Entry("keyiv", {<<cur.a.key_ptr, KeyLen>>, <<cur.a.iv_ptr, gcm.ivlen>>}, {}, {}, 0),
              TRUE, mem,
              [gcm EXCEPT !.key = ViewBytes(mem, cur.a.key_ptr, KeyLen),
                          !.iv = ViewBytes(mem, cur.a.iv_ptr, gcm.ivlen)],
              len, outLen, EncNext(pc, cur.a))

\* EVP_EncryptUpdate(ctx, NULL, &len, aad, aad_len)
EncAad ==
  /\ At("aes_256_gcm_encrypt", "aad")
  /\ PrimStep(Entry("aad", {<<cur.a.aad_ptr, cur.a.aad_len>>}, {}, {cur.a.aad_len}, 0),
              TRUE, mem,
              [gcm EXCEPT !.aad = ViewBytes(mem, cur.a.aad_ptr, cur.a.aad_len)],
              cur.a.aad_len, outLen, EncNext(pc, cur.a))

\* EVP_EncryptUpdate(ctx, ciphertext, &len, plaintext, plaintext_len); ciphertext_len = len;
EncUpdate ==
  /\ At("aes_256_gcm_encrypt", "update")
  /\ LET n == cur.a.plaintext_len
         C == GcmEncryptBytes(gcm.key, gcm.iv, ViewBytes(mem, cur.a.plaintext_ptr, n))
     IN  PrimStep(Entry("update", {<<cur.a.plaintext_ptr, n>>}, {<<cur.a.ciphertext_ptr, n>>},
                        {n}, 0),
                  TRUE, WriteBytes(mem, cur.a.ciphertext_ptr, C), [gcm EXCEPT !.data = C],
                  Len(C), Len(C), EncNext(pc, cur.a))

\* EVP_EncryptFinal_ex(ctx, ciphertext + ciphertext_len, &len); ciphertext_len += len;
\* GCM has no buffered block: the final call stores nothing and reports 0.
EncFinal ==
  /\ At("aes_256_gcm_encrypt", "final")
  /\ PrimStep(Entry("final", {}, {<<cur.a.ciphertext_ptr + outLen, 0>>}, {}, 0),
              TRUE, mem, gcm, 0, outLen + 0, EncNext(pc, cur.a))

\* EVP_CIPHER_CTX_ctrl(ctx, EVP_CTRL_GCM_GET_TAG, 16, tag)
EncGetTag ==
  /\ At("aes_256_gcm_encrypt", "gettag")
  /\ PrimStep(Entry("gettag", {}, {<<cur.a.tag_ptr, TagLen>>}, {}, TagLen),
              TRUE,
              WriteBytes(mem, cur.a.tag_ptr, GcmTag(gcm.key, gcm.iv, gcm.aad, gcm.data, TagLen)),
              gcm, len, outLen, EncNext(pc, cur.a))

\* The associated data the caller named, and the associated data the code feeds.
NominalAad(m, a) == ViewBytes(m, a.aad_ptr, a.aad_len)
FedAad(m, a) == IF AadPresent(a) THEN ViewBytes(m, a.aad_ptr, a.aad_len) ELSE << >>

\* EVP_CIPHER_CTX_free(ctx); return ciphertext_len;
EncReturn ==
  /\ At("aes_256_gcm_encrypt", "free")
  /\ ctx' = FreeCtx(ctx)
  /\ trace' = Append(trace, FreeEntry)
  /\ ret' = outLen
  /\ pc' = "done"
  /\ lastEnc' = [valid |-> TRUE,
                 K |-> ViewBytes(mem0, cur.a.key_ptr, KeyLen),
                 V |-> ViewBytes(mem0, cur.a.iv_ptr, cur.a.iv_len),
                 Anom |-> NominalAad(mem0, cur.a),
                 Afed |-> FedAad(mem0, cur.a),
                 P |-> ViewBytes(mem0, cur.a.plaintext_ptr, cur.a.plaintext_len),
                 C |-> ViewBytes(mem, cur.a.ciphertext_ptr, outLen),
                 T |-> ViewBytes(mem, cur.a.tag_ptr, 16)]
  /\ flipped' = FALSE
  /\ UNCHANGED <<mem, cur, gcm, len, outLen, mem0, failed, envFail, calls>>

aes_256_gcm_decrypt(a) == AeadEnter("aes_256_gcm_decrypt", a)

\* EVP_DecryptInit_ex(ctx, EVP_aes_256_gcm(), NULL, NULL, NULL)
DecInit ==
  /\ At("aes_256_gcm_decrypt", "init")
  /\ PrimStep(Entry("init", {}, {}, {}, 0), TRUE, mem, gcm, len, outLen, DecNext(pc, cur.a))

\* EVP_CIPHER_CTX_ctrl(ctx, EVP_CTRL_GCM_SET_IVLEN, iv_len, NULL)
DecSetIvLen ==
  /\ At("aes_256_gcm_decrypt", "ivlen")
  /\ PrimStep(Entry("ivlen", {}, {}, {cur.a.iv_len}, 0), cur.a.iv_len > 0, mem,
              [gcm EXCEPT !.ivlen = cur.a.iv_len], len, outLen, DecNext(pc, cur.a))

\* EVP_DecryptInit_ex(ctx, NULL, NULL, key, iv)
DecKeyIv ==
  /\ At("aes_256_gcm_decrypt", "keyiv")
  /\ PrimStep(Entry("keyiv", {<<cur.a.key_ptr, KeyLen>>, <<cur.a.iv_ptr, gcm.ivlen>>}, {}, {}, 0),
              TRUE, mem,
              [gcm EXCEPT !.key = ViewBytes(mem, cur.a.key_ptr, KeyLen),
                          !.iv = ViewBytes(mem, cur.a.iv_ptr, gcm.ivlen)],
              len, outLen, DecNext(pc, cur.a))

\* EVP_DecryptUpdate(ctx, NULL, &len, aad, aad_len)
DecAad ==
  /\ At("aes_256_gcm_decrypt", "aad")
  /\ PrimStep(Entry("aad", {<<cur.a.aad_ptr, cur.a.aad_len>>}, {}, {cur.a.aad_len}, 0),
              TRUE, mem,
              [gcm EXCEPT !.aad = ViewBytes(mem, cur.a.aad_ptr, cur.a.aad_len)],
              cur.a.aad_len, outLen, DecNext(pc, cur.a))

\* EVP_DecryptUpdate(ctx, plaintext, &len, ciphertext, ciphertext_len); plaintext_len = len;
\* GCM decrypts in counter mode as the data arrives: the plaintext is stored
\* now, before the tag has been looked at.
DecUpdate ==
  /\ At("aes_256_gcm_decrypt", "update")
  /\ LET n == cur.a.ciphertext_len
         C == ViewBytes(mem, cur.a.ciphertext_ptr, n)
         P == GcmDecryptBytes(gcm.key, gcm.iv, C)
     IN  PrimStep(Entry("update", {<<cur.a.ciphertext_ptr, n>>}, {<<cur.a.plaintext_ptr, n>>},
                        {n}, 0),
                  TRUE, WriteBytes(mem, cur.a.plaintext_ptr, P), [gcm EXCEPT !.data = C],
                  Len(P), Len(P), DecNext(pc, cur.a))

\* EVP_CIPHER_CTX_ctrl(ctx, EVP_CTRL_GCM_SET_TAG, 16, (void*)tag)
DecSetTag ==
  /\ At("aes_256_gcm_decrypt", "settag")
  /\ PrimStep(Entry("settag", {<<cur.a.tag_ptr, TagLen>>}, {}, {}, TagLen),
              TRUE, mem, [gcm EXCEPT !.tag = ViewBytes(mem, cur.a.tag_ptr, TagLen)],
              len, outLen, DecNext(pc, cur.a))

\* The tag the context expects matches what it has absorbed.
TagVerifies(g) == g.tag # << >> /\ g.tag = GcmTag(g.key, g.iv, g.aad, g.data, Len(g.tag))

\* EVP_DecryptFinal_ex(ctx, plaintext + plaintext_len, &len); plaintext_len += len;
DecFinal ==
  /\ At("aes_256_gcm_decrypt", "final")
  /\ PrimStep(Entry("final", {}, {<<cur.a.plaintext_ptr + outLen, 0>>}, {}, 0),
              TagVerifies(gcm), mem, gcm, 0, outLen + 0, DecNext(pc, cur.a))

\* EVP_CIPHER_CTX_free(ctx); return plaintext_len;
DecReturn ==
  /\ At("aes_256_gcm_decrypt", "free")
  /\ ctx' = FreeCtx(ctx)
  /\ trace' = Append(trace, FreeEntry)
  /\ ret' = outLen
  /\ pc' = "done"
  /\ UNCHANGED <<mem, cur, gcm, len, outLen, mem0, failed, envFail, calls, flipped, lastEnc>>

\* ------------------------------------------------------------------ the host
\* Between two calls the host flips one bit of what the last successful
\* encryption read or wrote.
Tamper(addr) ==
  /\ pc = "idle"
  /\ lastEnc.valid
  /\ ~flipped
  /\ calls < MaxCalls
  /\ flipped' = TRUE
  /\ mem' = [mem EXCEPT ![addr] = FlipBit(@)]
  /\ mem0' = mem'
  /\ UNCHANGED <<pc, cur, ret, ctx, gcm, len, outLen, trace, failed, envFail, calls, lastEnc>>

\* The host takes the return value; nothing of the call survives it.
Return ==
  /\ pc = "done"
  /\ pc' = "idle"
  /\ cur' = NoCall
  /\ ret' = 0
  /\ ctx' = NoCtx
  /\ gcm' = GcmIdle
  /\ len' = 0
  /\ outLen' = 0
  /\ trace' = << >>
  /\ mem0' = mem
  /\ failed' = "none"
  /\ envFail' = FALSE
  /\ UNCHANGED <<mem, calls, flipped, lastEnc>>

Next ==
  \/ \E r \in RandInputs : openssl_rand_bytes(r[1], r[2])
  \/ \E a \in Pbkdf2Inputs : pbkdf2_hmac_sha256(a)
  \/ \E a \in Pbkdf2Inputs : pbkdf2_hmac_sha512(a)
  \/ \E a \in ShaInputs : sha256_digest(a)
  \/ \E a \in ShaInputs : sha512_digest(a)
  \/ \E a \in EncInputs : aes_256_gcm_encrypt(a)
  \/ EncInit \/ EncSetIvLen \/ EncKeyIv \/ EncAad \/ EncUpdate \/ EncFinal \/ EncGetTag
  \/ EncReturn
  \/ \E a \in DecInputs : aes_256_gcm_decrypt(a)
  \/ DecInit \/ DecSetIvLen \/ DecKeyIv \/ DecAad \/ DecUpdate \/ DecSetTag \/ DecFinal
  \/ DecReturn
  \/ \E addr \in TamperAddrs : Tamper(addr)
  \/ Return

Spec == Init /\ [][Next]_vars

\* ------------------------------------------------------------------ claims
IsEnc == cur.op = "aes_256_gcm_encrypt"
IsDec == cur.op = "aes_256_gcm_decrypt"
IsAead == IsEnc \/ IsDec
IsPbkdf2 == cur.op \in {"pbkdf2_hmac_sha256", "pbkdf2_hmac_sha512"}
Returned == pc = "done"

Prims == [i \in 1 .. Len(trace) |-> trace[i].prim]
Invoked(p) == \E i \in 1 .. Len(trace) : trace[i].prim = p

\* C1: in both AEAD functions the cipher context created by the call is never
\* used after it was freed, never freed twice, and when the call has returned
\* it has been freed exactly once if it was created (and never if it was not).
C1_ContextReleasedOnce ==
  IsAead =>
    /\ ~ctx.uaf
    /\ ctx.frees <= 1
    /\ Returned =>
         /\ ctx.state # "live"
         /\ ctx.frees = (IF failed = "new" THEN 0 ELSE 1)
         /\ (ctx.state = "freed") <=> (failed # "new")

C1_Witness ==
  /\ Returned /\ IsDec /\ failed = "final" /\ ctx.state = "freed" /\ ctx.frees = 1

\* C2: when tag verification fails at finalization, aes_256_gcm_decrypt returns
\* -1 and the plaintext view holds the bytes it held before the call.
C2_NoPlaintextOnAuthFailure ==
  (Returned /\ IsDec /\ failed = "final" /\ ~envFail) =>
    /\ ret = -1
    /\ ViewBytes(mem, cur.a.plaintext_ptr, cur.a.ciphertext_len)
         = ViewBytes(mem0, cur.a.plaintext_ptr, cur.a.ciphertext_len)

\* C3: no call hands a primitive a view that extends outside the linear
\* memory, and no call traps on such a view: the view is rejected first.
C3_ViewsValidatedBeforeUse ==
  /\ pc # "trapped"
  /\ \A i \in 1 .. Len(trace) :
       \A v \in trace[i].reads \cup trace[i].writes : v[2] >= 0 => InRange(v[1], v[2])

\* C4: no primitive is ever invoked with a negative length argument.
C4_NoNegativeLengthToPrimitive ==
  \A i \in 1 .. Len(trace) : \A n \in trace[i].lens : n >= 0

\* C5: PBKDF2 with iterations <= 0 or destLength <= 0 returns 0 without invoking
\* the primitive and leaves memory unchanged; otherwise the primitive is invoked
\* exactly once with the hash of the variant, and the result is 1 if it
\* succeeded and 0 if it reported failure.
C5_Pbkdf2Contract ==
  (IsPbkdf2 /\ pc \in {"done", "trapped"}) =>
    IF cur.a.iterations <= 0 \/ cur.a.out_len <= 0
    THEN Returned /\ ret = 0 /\ trace = << >> /\ mem = mem0
    ELSE /\ Len(trace) = 1
         /\ trace[1].prim = "PKCS5_PBKDF2_HMAC"
         /\ trace[1].arg = (IF cur.op = "pbkdf2_hmac_sha256" THEN 256 ELSE 512)
         /\ Returned => ret = (IF failed = "none" THEN 1 ELSE 0)

C5_Witness ==
  /\ Returned /\ cur.op = "pbkdf2_hmac_sha512" /\ cur.a.pass_len = 0 /\ ret = 1
  /\ mem # mem0

\* C6: openssl_rand_bytes returns 0 or 1 whatever the random source reports,
\* and 1 only if the random source succeeded.
C6_RandStatusIsZeroOrOne ==
  (Returned /\ cur.op = "openssl_rand_bytes") =>
    /\ ret \in {0, 1}
    /\ ret = 1 => failed = "none"

\* What a decryption call read at entry.
DecKey == ViewBytes(mem0, cur.a.key_ptr, KeyLen)
DecIv == ViewBytes(mem0, cur.a.iv_ptr, cur.a.iv_len)
DecCt == ViewBytes(mem0, cur.a.ciphertext_ptr, cur.a.ciphertext_len)
DecTag == ViewBytes(mem0, cur.a.tag_ptr, 16)
SameKeyAndCt == DecKey = lastEnc.K /\ DecCt = lastEnc.C
DecSettled == Returned /\ IsDec /\ ~envFail /\ lastEnc.valid

C8_EncryptResult ==
  (Returned /\ IsEnc) =>
    /\ (ret = -1) <=> (failed # "none")
    /\ failed = "none" =>
         /\ ret = Len(gcm.data) + len
         /\ ret = cur.a.plaintext_len
         /\ ret >= 0
    /\ ret < 0 => ret = -1

C8_Witness == Returned /\ IsEnc /\ failed = "none" /\ ret = MaxLen /\ Invoked("aad")

\* The order of the primitive steps, with and without the AAD update.
StepOrder(enc, fed) ==
  <<"new", "init", "ivlen", "keyiv">> \o (IF fed THEN <<"aad">> ELSE << >>)
    \o (IF enc THEN <<"update", "final", "gettag">> ELSE <<"update", "settag", "final">>)

\* C9: the primitive steps of an AEAD call happen in the fixed order, the
\* failing step is the last one before the context is released, nothing
\* follows the release, and a failed encryption leaves the tag view unwritten.
C9_StepOrder ==
  IsAead =>
    /\ \E fed \in BOOLEAN :
         \A i \in 1 .. Len(trace) :
           IF Prims[i] = "EVP_CIPHER_CTX_free"
           THEN i = Len(trace)
           ELSE i <= Len(StepOrder(IsEnc, fed)) /\ Prims[i] = StepOrder(IsEnc, fed)[i]
    /\ (Returned /\ failed # "none" /\ failed # "new") =>
         /\ Len(trace) >= 2
         /\ Prims[Len(trace)] = "EVP_CIPHER_CTX_free"
         /\ Prims[Len(trace) - 1] = failed
    /\ (Returned /\ failed = "none") => Len(trace) = Len(StepOrder(IsEnc, Invoked("aad"))) + 1
    /\ (Returned /\ IsEnc /\ failed # "none") =>
         ViewBytes(mem, cur.a.tag_ptr, 16) = ViewBytes(mem0, cur.a.tag_ptr, 16)

C9_Witness ==
  /\ Returned /\ IsDec /\ failed = "none" /\ Invoked("aad")
  /\ Prims = <<"new", "init", "ivlen", "keyiv", "aad", "update", "settag", "final",
               "EVP_CIPHER_CTX_free">>

\* C10: the AAD update is made if and only if aadOffset != 0 and aadLength > 0;
\* otherwise the call goes on without it, and a successful encryption yields
\* the ciphertext and tag of empty associated data.
C10_AadFedIffNonNullAndPositive ==
  (IsAead /\ Returned) =>
    /\ Invoked("aad") => (cur.a.aad_ptr # 0 /\ cur.a.aad_len > 0)
    /\ (Invoked("update") /\ cur.a.aad_ptr # 0 /\ cur.a.aad_len > 0) => Invoked("aad")
    /\ (IsEnc /\ failed = "none" /\ ~(cur.a.aad_ptr # 0 /\ cur.a.aad_len > 0)) =>
         /\ ret = cur.a.plaintext_len
         /\ ViewBytes(mem, cur.a.tag_ptr, 16)
              = GcmTag(ViewBytes(mem0, cur.a.key_ptr, KeyLen),
                       ViewBytes(mem0, cur.a.iv_ptr, cur.a.iv_len), << >>,
                       ViewBytes(mem, cur.a.ciphertext_ptr, ret), 16)

C10_Witness ==
  /\ Returned /\ IsEnc /\ failed = "none" /\ cur.a.aad_ptr = 0 /\ cur.a.aad_len > 0
  /\ ret = MaxLen /\ ~Invoked("aad")

=============================================================================
